---- MODULE Spec2Model ----
(***************************************************************************)
(* MyAllocator<T, BlockSize> and MyContainer<T, Allocator> of src/main.cpp *)
(* as a state machine.  The state is the system heap (operator new /      *)
(* operator delete), every allocator instance's free_blocks vector, the   *)
(* raw blocks a direct caller of an allocator holds, the objects living   *)
(* in memory, and every container's alloc_, elements_ and size_.          *)
(* Variables whose comment says "observer" record what an instrumented    *)
(* allocator would count; no operation of the program reads them.         *)
(***************************************************************************)
EXTENDS Integers, Sequences, FiniteSets, TLC

\* The template argument BlockSize (src/main.cpp:9, default 10), instantiated
\* small; every property is checked for this value and the next one.
BlockSize == 2
\* Number of allocator instances a caller creates directly.
MaxStandalone == 2
\* Number of MyContainer objects created.
MaxConts == 2
\* Element values are 0..MaxValue.
MaxValue == 1
\* Blocks the system heap can hand out before operator new throws bad_alloc.
MaxAddr == 4
\* Calls the environment lets fail (bad_alloc, a throwing copy constructor).
MaxFail == 1
\* Completed allocate/deallocate cycles the observer cyc tells apart.
CyclesSeen == 2
\* Operations in a run of the specification Spec.
MaxSteps == 5

AllocId == 1..(MaxStandalone + MaxConts)
ContId == 1..MaxConts
Addr == 1..MaxAddr
Values == 0..MaxValue
\* sizeof(T) for T = int
SizeofT == 4
\* size_type is an unsigned integer of WordBits bits (scaled down from 64)
WordBits == 5
SizeMod == 2 ^ WordBits
\* The counts a direct caller asks for: one element, the largest in-pool
\* request, the smallest bypass request
Counts == {1, BlockSize, BlockSize + 1}

\* Counts on the bypass path up to the largest size_type value: the smallest,
\* the first whose product with sizeof(T) does not fit, the largest
WideCounts == {BlockSize + 1, SizeMod \div SizeofT, SizeMod - 1}

NoAddr == 0
NoObj == -1
NotLive == -1

VARIABLES
  nextAddr,     \* system heap: number of blocks operator new has handed out
  heap,         \* system heap: block address -> its size in bytes, NotLive if none
  mem,          \* object living at an address (NoObj: raw memory)
  astate,       \* allocator instance: "none" (not constructed), "live", "dead"
  free_blocks,  \* allocator instance -> its free_blocks vector
  embedded,     \* allocator instance -> the container whose alloc_ it is, 0 if standalone
  held,         \* blocks the direct caller holds: {[p, n, a]} (allocate(n) on a returned p)
  cstate,       \* container: "none", "live", "dead"
  alloc_,       \* container -> its allocator instance
  elements_,    \* container -> vector of element addresses
  size_,        \* container -> size_
  fails,        \* environment: calls that have failed so far
  cnt,          \* observer: per allocator instance, the calls a container made on it, the
                \* blocks it obtained from operator new, the expand() runs completed
  run,          \* observer: per allocator instance, pool allocations since its last expand
  cyc,          \* observer: per allocator instance, whether it has only served the cycle
                \* allocate(1), deallocate(that block, 1): p is the block out (0: none,
                \* -1: the cycle was left), k the cycles completed, counted up to CyclesSeen
  appended,     \* observer: per container, the values its completed push_backs were given
  failedPush,   \* observer: per container, whether one of its push_backs threw
  steps,        \* operations performed (counted only where the specification bounds them)
  last          \* observer: the operation that produced this state and the calls it made

vars == <<nextAddr, heap, mem, astate, free_blocks, embedded, held, cstate, alloc_,
          elements_, size_, fails, cnt, run, cyc, appended, failedPush, steps, last>>

allocVars == <<nextAddr, heap, astate, free_blocks, embedded>>
contVars == <<cstate, alloc_, elements_, size_>>

Min(x, y) == IF x <= y THEN x ELSE y

\* (variants: reading the first entry; removing nothing; overwriting the
\* last entry)
Front(v) == v[1]
PopNone(v) == v
PushReplace(v, e) == IF v = <<>> THEN <<e>> ELSE [v EXCEPT ![Len(v)] = e]

\* std::vector operations used on free_blocks and elements_
Back(v) == v[Len(v)]
PopBack(v) == SubSeq(v, 1, Len(v) - 1)
\* (variants: inserting at the front; not inserting)
PushFront(v, e) == <<e>> \o v
PushLost(v, e) == v
PushBack(v, e) == Append(v, e)

\* n * sizeof(T) in size_type arithmetic (line 38)
bypass_bytes(n) == (n * SizeofT) % SizeMod

\* (variant: the bypass test off by one)
is_bypass_late(n) == n > BlockSize + 1

\* The bypass test of allocate and deallocate (lines 37, 53)
is_bypass(n) == n > BlockSize

(***************************************************************************)
(* How far a call gets before the system runs out of memory is the        *)
(* environment's choice k: the call's fallible steps are, in order,       *)
(* operator new, free_blocks.push_back, operator new, free_blocks.        *)
(* push_back, ...; the first k of them succeed and step k+1, if the call  *)
(* gets there, throws bad_alloc.                                           *)
(***************************************************************************)
OomChoices == 0..(2 * BlockSize)

\* expand() (lines 75-79) running `blocks` iterations under choice k:
\* the vector reached, the blocks obtained from operator new, and whether
\* the loop ran to its end.
expand_loop(fb, na, k, blocks) ==
  LET pushes == Min(k \div 2, blocks)
      news == Min((k + 1) \div 2, blocks)
  IN [ok |-> pushes = blocks,
      fb |-> fb \o [j \in 1..pushes |-> na + j],
      news |-> news]

\* (variant: the loop of expand() stopping one iteration early)
expand_short(fb, na, k) == expand_loop(fb, na, k, BlockSize - 1)

expand(fb, na, k) == expand_loop(fb, na, k, BlockSize)

\* (variant: the bypass path handing back a null pointer where operator new
\* fails, instead of letting bad_alloc through)
allocate_nothrow(fb, na, n, k) ==
  IF is_bypass(n)
  THEN [ok |-> TRUE,
        result |-> IF k >= 1 THEN na + 1 ELSE NoAddr,
        fb |-> fb,
        news |-> IF k >= 1 THEN 1 ELSE 0,
        bytes |-> bypass_bytes(n),
        expanded |-> FALSE]
  ELSE LET e == IF fb = <<>> THEN expand(fb, na, k)
                ELSE [ok |-> TRUE, fb |-> fb, news |-> 0]
       IN [ok |-> e.ok,
           result |-> IF e.ok THEN Back(e.fb) ELSE NoAddr,
           fb |-> IF e.ok THEN PopBack(e.fb) ELSE e.fb,
           news |-> e.news,
           bytes |-> SizeofT,
           expanded |-> (fb = <<>>) /\ e.ok]

\* allocate(n) (lines 35-48) on a free_blocks vector fb, with na blocks handed
\* out by the system so far: whether it returned (ok) or threw, the pointer
\* returned, the vector left behind, the blocks obtained from operator new
\* and their size, and whether expand() ran to its end.
allocate(fb, na, n, k) ==
  IF is_bypass(n)
  THEN [ok |-> k >= 1,
        result |-> IF k >= 1 THEN na + 1 ELSE NoAddr,
        fb |-> fb,
        news |-> IF k >= 1 THEN 1 ELSE 0,
        bytes |-> bypass_bytes(n),
        expanded |-> FALSE]
  ELSE LET e == IF fb = <<>> THEN expand(fb, na, k)
                ELSE [ok |-> TRUE, fb |-> fb, news |-> 0]
       IN [ok |-> e.ok,
           result |-> IF e.ok THEN Back(e.fb) ELSE NoAddr,
           fb |-> IF e.ok THEN PopBack(e.fb) ELSE e.fb,
           news |-> e.news,
           bytes |-> SizeofT,
           expanded |-> (fb = <<>>) /\ e.ok]

\* (variants: deallocate pushing the block twice; deallocate handing every
\* block to operator delete)
deallocate_twice(fb, p, n) ==
  IF is_bypass(n)
  THEN [fb |-> fb, deleted |-> TRUE]
  ELSE [fb |-> PushBack(PushBack(fb, p), p), deleted |-> FALSE]
deallocate_delete(fb, p, n) == [fb |-> fb, deleted |-> TRUE]

\* (variant: deallocate forgetting the block on the pool path)
deallocate_drop(fb, p, n) == [fb |-> fb, deleted |-> is_bypass(n)]

\* deallocate(p, n) (lines 51-59): the vector left behind and whether p went
\* to operator delete.
deallocate(fb, p, n) ==
  IF is_bypass(n)
  THEN [fb |-> fb, deleted |-> TRUE]
  ELSE [fb |-> PushBack(fb, p), deleted |-> FALSE]

\* (variant: destroy leaving the object in place)
destroy_skip(m, p) == m

\* construct(p, v) (lines 62-65) and destroy(p) (lines 68-71) on memory
construct(m, p, v) == [m EXCEPT ![p] = v]
destroy(m, p) == [m EXCEPT ![p] = NoObj]

\* The system heap after operator new handed out blocks na+1 .. na+news
heap_new(hp, na, news, bytes) ==
  [p \in Addr |-> IF p > na /\ p <= na + news THEN bytes ELSE hp[p]]

\* The system heap after operator delete(p)
heap_delete(hp, p) == [hp EXCEPT ![p] = NotLive]

\* Whether the system can still hand out what choice k lets the call obtain
Affordable(na, k) == (k + 1) \div 2 <= MaxAddr - na

NoCnt == [allocate |-> 0, deallocate |-> 0, construct |-> 0, destroy |-> 0,
          sys |-> 0, expands |-> 0]

Op(op, ok, calls) == [op |-> op, ok |-> ok, calls |-> calls, out |-> <<>>]

Init ==
  /\ nextAddr = 0
  /\ heap = [p \in Addr |-> NotLive]
  /\ mem = [p \in Addr |-> NoObj]
  /\ astate = [a \in AllocId |-> "none"]
  /\ free_blocks = [a \in AllocId |-> <<>>]
  /\ embedded = [a \in AllocId |-> 0]
  /\ held = {}
  /\ cstate = [c \in ContId |-> "none"]
  /\ alloc_ = [c \in ContId |-> 0]
  /\ elements_ = [c \in ContId |-> <<>>]
  /\ size_ = [c \in ContId |-> 0]
  /\ fails = 0
  /\ cnt = [a \in AllocId |-> NoCnt]
  /\ run = [a \in AllocId |-> 0]
  /\ cyc = [a \in AllocId |-> [p |-> 0, k |-> 0]]
  /\ appended = [c \in ContId |-> <<>>]
  /\ failedPush = [c \in ContId |-> FALSE]
  /\ steps = 0
  /\ last = Op("init", TRUE, <<>>)

\* The allocator instances constructed so far are 1 .. NumAllocs
NumAllocs == Cardinality({a \in AllocId : astate[a] # "none"})
NumStandalone == Cardinality({a \in AllocId : astate[a] # "none" /\ embedded[a] = 0})
NumConts == Cardinality({c \in ContId : cstate[c] # "none"})

\* MyAllocator() (line 28): a new instance with an empty free_blocks
DefaultAllocator ==
  /\ NumStandalone < MaxStandalone
  /\ LET a == NumAllocs + 1 IN
     /\ astate' = [astate EXCEPT ![a] = "live"]
     /\ free_blocks' = [free_blocks EXCEPT ![a] = <<>>]
     /\ last' = Op("MyAllocator", TRUE, <<>>)
  /\ UNCHANGED <<nextAddr, heap, mem, embedded, held, contVars, fails, cnt, run, cyc,
                 appended, failedPush>>

\* The implicitly declared copy constructor MyAllocator(const MyAllocator&):
\* memberwise, so the new instance's free_blocks is a copy of the source's
CopyAllocator(src) ==
  /\ NumStandalone < MaxStandalone
  /\ astate[src] = "live" /\ embedded[src] = 0
  /\ LET a == NumAllocs + 1 IN
     /\ astate' = [astate EXCEPT ![a] = "live"]
     /\ free_blocks' = [free_blocks EXCEPT ![a] = free_blocks[src]]
     /\ last' = Op("copy", TRUE, <<>>)
  /\ UNCHANGED <<nextAddr, heap, mem, embedded, held, contVars, fails, cnt, run, cyc,
                 appended, failedPush>>

\* The converting constructor MyAllocator(const MyAllocator<U, BlockSize>&)
\* (lines 31-32): its body is empty, the new instance's free_blocks is empty
RebindAllocator(src) ==
  /\ NumStandalone < MaxStandalone
  /\ astate[src] = "live" /\ embedded[src] = 0
  /\ LET a == NumAllocs + 1 IN
     /\ astate' = [astate EXCEPT ![a] = "live"]
     /\ free_blocks' = [free_blocks EXCEPT ![a] = <<>>]
     /\ last' = Op("rebind", TRUE, <<>>)
  /\ UNCHANGED <<nextAddr, heap, mem, embedded, held, contVars, fails, cnt, run, cyc,
                 appended, failedPush>>

\* The observers after allocate(n) on instance a gave r
cnt_allocate(a, r) ==
  [cnt EXCEPT ![a].sys = @ + r.news,
              ![a].expands = @ + (IF r.expanded THEN 1 ELSE 0)]
run_allocate(a, n, r) ==
  [run EXCEPT ![a] = IF is_bypass(n) THEN @
                     ELSE IF r.expanded THEN 1
                     ELSE IF r.ok /\ @ > 0 THEN @ + 1
                     ELSE 0]

\* A direct caller's allocate(n) on a standalone instance
Allocate(a, n, k) ==
  /\ astate[a] = "live" /\ embedded[a] = 0
  /\ Affordable(nextAddr, k)
  /\ LET r == allocate(free_blocks[a], nextAddr, n, k) IN
     /\ r.ok \/ fails < MaxFail
     /\ fails' = fails + (IF r.ok THEN 0 ELSE 1)
     /\ free_blocks' = [free_blocks EXCEPT ![a] = r.fb]
     /\ nextAddr' = nextAddr + r.news
     /\ heap' = heap_new(heap, nextAddr, r.news, r.bytes)
     /\ held' = IF r.ok THEN held \cup {[p |-> r.result, n |-> n, a |-> a]} ELSE held
     /\ cnt' = cnt_allocate(a, r)
     /\ run' = run_allocate(a, n, r)
     /\ cyc' = [cyc EXCEPT ![a].p = IF @ = 0 /\ n = 1 /\ r.ok THEN r.result ELSE -1]
     /\ last' = Op("allocate", r.ok, <<>>)
  /\ UNCHANGED <<mem, astate, embedded, contVars, appended, failedPush>>

\* A direct caller's deallocate(p, n) of a block it holds, on the instance
\* that returned it and with the count it was requested with (the
\* precondition of deallocate)
Deallocate(h) ==
  /\ h \in held
  /\ astate[h.a] = "live"
  /\ LET r == deallocate(free_blocks[h.a], h.p, h.n) IN
     /\ free_blocks' = [free_blocks EXCEPT ![h.a] = r.fb]
     /\ heap' = IF r.deleted THEN heap_delete(heap, h.p) ELSE heap
     /\ held' = held \ {h}
     /\ run' = [run EXCEPT ![h.a] = IF is_bypass(h.n) THEN @ ELSE 0]
     /\ cyc' = [cyc EXCEPT ![h.a] = IF @.p = h.p /\ h.n = 1
                                     THEN [p |-> 0, k |-> Min(@.k + 1, CyclesSeen)]
                                     ELSE [p |-> -1, k |-> @.k]]
     /\ last' = Op("deallocate", TRUE, <<>>)
  /\ UNCHANGED <<nextAddr, mem, astate, embedded, contVars, fails, cnt, appended,
                 failedPush>>

\* A call an instrumented allocator sees: function, instance, pointer, count
Call(f, a, p, n) == [f |-> f, a |-> a, p |-> p, n |-> n]

\* MyContainer(const allocator_type& alloc = allocator_type()) (line 104):
\* alloc_ is a copy of the allocator supplied (src = 0: the default argument,
\* a temporary MyAllocator()), elements_ is empty, size_ is 0
MyContainer(src) ==
  /\ NumConts < MaxConts
  /\ src = 0 \/ (src \in AllocId /\ astate[src] = "live" /\ embedded[src] = 0)
  /\ LET c == NumConts + 1
         a == NumAllocs + 1
         pool == IF src = 0 THEN <<>> ELSE free_blocks[src]
     IN
     /\ astate' = [astate EXCEPT ![a] = "live"]
     /\ free_blocks' = [free_blocks EXCEPT ![a] = pool]
     /\ embedded' = [embedded EXCEPT ![a] = c]
     /\ cstate' = [cstate EXCEPT ![c] = "live"]
     /\ alloc_' = [alloc_ EXCEPT ![c] = a]
     /\ elements_' = [elements_ EXCEPT ![c] = <<>>]
     /\ size_' = [size_ EXCEPT ![c] = 0]
     /\ last' = Op("MyContainer", TRUE, <<>>)
  /\ UNCHANGED <<nextAddr, heap, mem, held, fails, cnt, run, cyc, appended, failedPush>>

\* The implicitly declared copy constructor MyContainer(const MyContainer&)
\* (the class declares none): alloc_, elements_ and size_ are copied member
\* by member
CopyContainer(src) ==
  /\ NumConts < MaxConts
  /\ cstate[src] = "live"
  /\ LET c == NumConts + 1
         a == NumAllocs + 1
     IN
     /\ astate' = [astate EXCEPT ![a] = "live"]
     /\ free_blocks' = [free_blocks EXCEPT ![a] = free_blocks[alloc_[src]]]
     /\ embedded' = [embedded EXCEPT ![a] = c]
     /\ cstate' = [cstate EXCEPT ![c] = "live"]
     /\ alloc_' = [alloc_ EXCEPT ![c] = a]
     /\ elements_' = [elements_ EXCEPT ![c] = elements_[src]]
     /\ size_' = [size_ EXCEPT ![c] = size_[src]]
     /\ last' = Op("copy", TRUE, <<>>)
  /\ UNCHANGED <<nextAddr, heap, mem, held, fails, cnt, run, cyc, appended, failedPush>>

\* Where push_back stops: it returns, or T's copy constructor throws in
\* construct (line 109), or elements_.push_back throws bad_alloc (line 110)
PushOutcomes == {"ok", "construct", "record"}

\* push_back(value) (lines 107-112)
push_back(c, v, k, f) ==
  /\ cstate[c] = "live"
  /\ Affordable(nextAddr, k)
  /\ LET a == alloc_[c]
         r == allocate(free_blocks[a], nextAddr, 1, k)
         done == r.ok /\ f = "ok"
         built == r.ok /\ f # "construct"
     IN
     /\ r.ok \/ f = "ok"
     /\ done \/ fails < MaxFail
     /\ fails' = fails + (IF done THEN 0 ELSE 1)
     /\ free_blocks' = [free_blocks EXCEPT ![a] = r.fb]
     /\ nextAddr' = nextAddr + r.news
     /\ heap' = heap_new(heap, nextAddr, r.news, r.bytes)
     /\ mem' = IF built THEN construct(mem, r.result, v) ELSE mem
     /\ elements_' = IF done THEN [elements_ EXCEPT ![c] = PushBack(@, r.result)]
                     ELSE elements_
     /\ size_' = IF done THEN [size_ EXCEPT ![c] = @ + 1] ELSE size_
     /\ cnt' = [cnt_allocate(a, r) EXCEPT
                  ![a].allocate = @ + 1,
                  ![a].construct = @ + (IF built THEN 1 ELSE 0)]
     /\ run' = run_allocate(a, 1, r)
     /\ appended' = IF done THEN [appended EXCEPT ![c] = Append(@, v)] ELSE appended
     /\ failedPush' = [failedPush EXCEPT ![c] = @ \/ ~done]
     /\ last' = Op("push_back", done, <<Call("allocate", a, r.result, 1)>>
                   \o (IF r.ok THEN <<Call("construct", a, r.result, 0)>> ELSE <<>>))
  /\ UNCHANGED <<astate, embedded, held, cstate, alloc_, cyc>>

\* size() and empty() (lines 122-123)
size(c) == size_[c]
empty(c) == size_[c] = 0

\* print() (lines 115-120) writes *ptr for every ptr of elements_, in order.
\* Reading an element that has been destroyed has no defined result.
deref(m, p) == IF m[p] # NoObj THEN {m[p]} ELSE Values

RECURSIVE enumerate(_, _)
enumerate(m, elems) ==
  IF elems = <<>> THEN {<<>>}
  ELSE {<<v>> \o rest : v \in deref(m, Head(elems)), rest \in enumerate(m, Tail(elems))}

print(c, o) ==
  /\ cstate[c] = "live"
  /\ o \in enumerate(mem, elements_[c])
  /\ last' = [Op("print", TRUE, <<>>) EXCEPT !.out = o]
  /\ UNCHANGED <<nextAddr, heap, mem, astate, free_blocks, embedded, held, contVars,
                 fails, cnt, run, cyc, appended, failedPush>>

\* The calls to f in a sequence of calls
CountCalls(calls, f) == Cardinality({i \in DOMAIN calls : calls[i].f = f})

\* (variant: the loop of the destructor leaving out the last element)
RECURSIVE teardown_short(_, _, _, _, _)
teardown_short(a, elems, i, fb, m) ==
  IF i >= Len(elems) THEN [fb |-> fb, mem |-> m, calls |-> <<>>]
  ELSE LET ptr == elems[i]
           d == deallocate(fb, ptr, 1)
           rest == teardown_short(a, elems, i + 1, d.fb, destroy(m, ptr))
       IN [fb |-> rest.fb, mem |-> rest.mem,
           calls |-> <<Call("destroy", a, ptr, 0), Call("deallocate", a, ptr, 1)>>
                     \o rest.calls]

\* (variant: the loop of the destructor deallocating before it destroys)
RECURSIVE teardown_swapped(_, _, _, _, _)
teardown_swapped(a, elems, i, fb, m) ==
  IF i > Len(elems) THEN [fb |-> fb, mem |-> m, calls |-> <<>>]
  ELSE LET ptr == elems[i]
           d == deallocate(fb, ptr, 1)
           rest == teardown_swapped(a, elems, i + 1, d.fb, destroy(m, ptr))
       IN [fb |-> rest.fb, mem |-> rest.mem,
           calls |-> <<Call("deallocate", a, ptr, 1), Call("destroy", a, ptr, 0)>>
                     \o rest.calls]

\* The loop of ~MyContainer() (lines 127-130) from element i on: the state
\* it leaves in the allocator and in memory, and the calls it makes
RECURSIVE teardown(_, _, _, _, _)
teardown(a, elems, i, fb, m) ==
  IF i > Len(elems) THEN [fb |-> fb, mem |-> m, calls |-> <<>>]
  ELSE LET ptr == elems[i]
           m2 == destroy(m, ptr)
           d == deallocate(fb, ptr, 1)
           rest == teardown(a, elems, i + 1, d.fb, m2)
       IN [fb |-> rest.fb, mem |-> rest.mem,
           calls |-> <<Call("destroy", a, ptr, 0), Call("deallocate", a, ptr, 1)>>
                     \o rest.calls]

\* ~MyContainer() (lines 126-131); alloc_ is destroyed with the container
Destroy(c) ==
  /\ cstate[c] = "live"
  /\ LET a == alloc_[c]
         t == teardown(a, elements_[c], 1, free_blocks[a], mem)
     IN
     /\ free_blocks' = [free_blocks EXCEPT ![a] = t.fb]
     /\ mem' = t.mem
     /\ astate' = [astate EXCEPT ![a] = "dead"]
     /\ cstate' = [cstate EXCEPT ![c] = "dead"]
     /\ cnt' = [cnt EXCEPT ![a].destroy = @ + CountCalls(t.calls, "destroy"),
                           ![a].deallocate = @ + CountCalls(t.calls, "deallocate")]
     /\ run' = [run EXCEPT ![a] = 0]
     /\ last' = Op("destroy", TRUE, t.calls)
  /\ UNCHANGED <<nextAddr, heap, embedded, held, alloc_, elements_, size_, fails, cyc,
                 appended, failedPush>>

\* The implicitly declared destructor of MyAllocator (the class declares
\* none): the vector free_blocks goes away, the blocks it pointed to are
\* not given to operator delete
DestroyAllocator(a) ==
  /\ astate[a] = "live" /\ embedded[a] = 0
  /\ astate' = [astate EXCEPT ![a] = "dead"]
  /\ run' = [run EXCEPT ![a] = 0]
  /\ last' = Op("~MyAllocator", TRUE, <<>>)
  /\ UNCHANGED <<nextAddr, heap, mem, free_blocks, embedded, held, contVars, fails,
                 cnt, cyc, appended, failedPush>>

\* (variant: equality decided by the contents of the two pools)
operator_eq_pools(x, y) == x = y

\* operator== (lines 85-88) and operator!= (lines 90-93) on two instances of
\* the same BlockSize, whose free_blocks vectors are x and y; the element
\* types T and U are template parameters neither body reads
operator_eq(x, y) == TRUE
operator_ne(x, y) == FALSE

\* A comparison a caller made: the function and the two instances
Compared(f, a, b) == [f |-> f, a |-> a, b |-> b]

\* a == b and a != b; last.out carries the value returned
Equal(a, b) ==
  /\ astate[a] = "live" /\ astate[b] = "live"
  /\ last' = [Op("operator==", TRUE, <<Compared("operator==", a, b)>>)
                EXCEPT !.out = <<operator_eq(free_blocks[a], free_blocks[b])>>]
  /\ UNCHANGED <<nextAddr, heap, mem, astate, free_blocks, embedded, held, contVars,
                 fails, cnt, run, cyc, appended, failedPush>>

NotEqual(a, b) ==
  /\ astate[a] = "live" /\ astate[b] = "live"
  /\ last' = [Op("operator!=", TRUE, <<Compared("operator!=", a, b)>>)
                EXCEPT !.out = <<operator_ne(free_blocks[a], free_blocks[b])>>]
  /\ UNCHANGED <<nextAddr, heap, mem, astate, free_blocks, embedded, held, contVars,
                 fails, cnt, run, cyc, appended, failedPush>>

\* An operation in a specification that explores every run
Free(A) == A /\ UNCHANGED steps

\* An operation in a specification that explores runs of at most MaxSteps
\* operations
Counted(A) == steps < MaxSteps /\ steps' = steps + 1 /\ A

\* The state after `MyAllocator<T, BlockSize> a;`: instance 1, standalone
InitAlloc ==
  /\ nextAddr = 0
  /\ heap = [p \in Addr |-> NotLive]
  /\ mem = [p \in Addr |-> NoObj]
  /\ astate = [a \in AllocId |-> IF a = 1 THEN "live" ELSE "none"]
  /\ free_blocks = [a \in AllocId |-> <<>>]
  /\ embedded = [a \in AllocId |-> 0]
  /\ held = {}
  /\ cstate = [c \in ContId |-> "none"]
  /\ alloc_ = [c \in ContId |-> 0]
  /\ elements_ = [c \in ContId |-> <<>>]
  /\ size_ = [c \in ContId |-> 0]
  /\ fails = 0
  /\ cnt = [a \in AllocId |-> NoCnt]
  /\ run = [a \in AllocId |-> 0]
  /\ cyc = [a \in AllocId |-> [p |-> 0, k |-> 0]]
  /\ appended = [c \in ContId |-> <<>>]
  /\ failedPush = [c \in ContId |-> FALSE]
  /\ steps = 0
  /\ last = Op("MyAllocator", TRUE, <<>>)

\* One allocator used directly: allocate and deallocate with every count,
\* the system free to run out of memory
NextAlloc ==
  \/ \E a \in AllocId, n \in Counts, k \in OomChoices : Free(Allocate(a, n, k))
  \/ \E h \in held : Free(Deallocate(h))

SpecAlloc == InitAlloc /\ [][NextAlloc]_vars

\* The state after `MyContainer<int, MyAllocator<int, BlockSize>> c;`
\* (line 182): container 1, whose alloc_ is instance 1
InitCont ==
  /\ nextAddr = 0
  /\ heap = [p \in Addr |-> NotLive]
  /\ mem = [p \in Addr |-> NoObj]
  /\ astate = [a \in AllocId |-> IF a = 1 THEN "live" ELSE "none"]
  /\ free_blocks = [a \in AllocId |-> <<>>]
  /\ embedded = [a \in AllocId |-> IF a = 1 THEN 1 ELSE 0]
  /\ held = {}
  /\ cstate = [c \in ContId |-> IF c = 1 THEN "live" ELSE "none"]
  /\ alloc_ = [c \in ContId |-> IF c = 1 THEN 1 ELSE 0]
  /\ elements_ = [c \in ContId |-> <<>>]
  /\ size_ = [c \in ContId |-> 0]
  /\ fails = 0
  /\ cnt = [a \in AllocId |-> NoCnt]
  /\ run = [a \in AllocId |-> 0]
  /\ cyc = [a \in AllocId |-> [p |-> 0, k |-> 0]]
  /\ appended = [c \in ContId |-> <<>>]
  /\ failedPush = [c \in ContId |-> FALSE]
  /\ steps = 0
  /\ last = Op("MyContainer", TRUE, <<>>)

\* One container from construction to destruction, with every way
\* push_back can fail
NextCont ==
  \/ \E c \in ContId, v \in Values, k \in OomChoices, f \in PushOutcomes :
        Free(push_back(c, v, k, f))
  \/ \E c \in ContId : \E o \in enumerate(mem, elements_[c]) : Free(print(c, o))
  \/ \E c \in ContId : Free(Destroy(c))

SpecCont == InitCont /\ [][NextCont]_vars

\* The state after `MyAllocator<T, BlockSize> a; MyContainer<T,
\* MyAllocator<T, BlockSize>> c;`: instance 1 is a, instance 2 is c's alloc_
InitOom ==
  /\ nextAddr = 0
  /\ heap = [p \in Addr |-> NotLive]
  /\ mem = [p \in Addr |-> NoObj]
  /\ astate = [a \in AllocId |-> IF a \in {1, 2} THEN "live" ELSE "none"]
  /\ free_blocks = [a \in AllocId |-> <<>>]
  /\ embedded = [a \in AllocId |-> IF a = 2 THEN 1 ELSE 0]
  /\ held = {}
  /\ cstate = [c \in ContId |-> IF c = 1 THEN "live" ELSE "none"]
  /\ alloc_ = [c \in ContId |-> IF c = 1 THEN 2 ELSE 0]
  /\ elements_ = [c \in ContId |-> <<>>]
  /\ size_ = [c \in ContId |-> 0]
  /\ fails = 0
  /\ cnt = [a \in AllocId |-> NoCnt]
  /\ run = [a \in AllocId |-> 0]
  /\ cyc = [a \in AllocId |-> [p |-> 0, k |-> 0]]
  /\ appended = [c \in ContId |-> <<>>]
  /\ failedPush = [c \in ContId |-> FALSE]
  /\ steps = 0
  /\ last = Op("MyContainer", TRUE, <<>>)

\* A container, whose push_back asks its pool for single blocks, next to a
\* direct caller asking for more than BlockSize elements at once, the system
\* free to run out of memory
NextOom ==
  \/ \E a \in AllocId, k \in OomChoices : Free(Allocate(a, BlockSize + 1, k))
  \/ \E h \in held : Free(Deallocate(h))
  \/ \E c \in ContId, v \in Values, k \in OomChoices, f \in PushOutcomes :
        Free(push_back(c, v, k, f))
  \/ \E c \in ContId : Free(Destroy(c))

SpecOom == InitOom /\ [][NextOom]_vars

\* Allocator instances built by the default and the converting constructor,
\* used directly and compared with each other, for runs of at most MaxSteps
\* operations
NextPools ==
  \/ Counted(DefaultAllocator)
  \/ \E src \in AllocId : Counted(RebindAllocator(src))
  \/ \E a \in AllocId, n \in Counts, k \in OomChoices : Counted(Allocate(a, n, k))
  \/ \E h \in held : Counted(Deallocate(h))
  \/ \E a, b \in AllocId : Counted(Equal(a, b))
  \/ \E a, b \in AllocId : Counted(NotEqual(a, b))

SpecPools == Init /\ [][NextPools]_vars

\* One allocator asked directly for more than BlockSize elements at once,
\* with counts up to the largest size_type value
NextWide ==
  \/ \E a \in AllocId, n \in WideCounts, k \in OomChoices : Free(Allocate(a, n, k))
  \/ \E h \in held : Free(Deallocate(h))

SpecWide == InitAlloc /\ [][NextWide]_vars

\* An allocator used directly with every count and a container with its own
\* allocator, each from construction to destruction, the system free to run
\* out of memory, for runs of at most MaxSteps operations
NextLife ==
  \/ \E a \in AllocId, n \in Counts, k \in OomChoices : Counted(Allocate(a, n, k))
  \/ \E h \in held : Counted(Deallocate(h))
  \/ \E a \in AllocId : Counted(DestroyAllocator(a))
  \/ \E c \in ContId, v \in Values, k \in OomChoices, f \in PushOutcomes :
        Counted(push_back(c, v, k, f))
  \/ \E c \in ContId : Counted(Destroy(c))

SpecLife == InitOom /\ [][NextLife]_vars

\* Every operation, the copy constructors of allocators and containers
\* included, for runs of at most MaxSteps operations
Next ==
  \/ Counted(DefaultAllocator)
  \/ \E src \in AllocId : Counted(CopyAllocator(src))
  \/ \E src \in AllocId : Counted(RebindAllocator(src))
  \/ \E a \in AllocId, n \in Counts, k \in OomChoices : Counted(Allocate(a, n, k))
  \/ \E h \in held : Counted(Deallocate(h))
  \/ \E src \in {0} \cup AllocId : Counted(MyContainer(src))
  \/ \E src \in ContId : Counted(CopyContainer(src))
  \/ \E c \in ContId, v \in Values, k \in OomChoices, f \in PushOutcomes :
        Counted(push_back(c, v, k, f))
  \/ \E c \in ContId : \E o \in enumerate(mem, elements_[c]) : Counted(print(c, o))
  \/ \E c \in ContId : Counted(Destroy(c))

Spec == Init /\ [][Next]_vars

Range(v) == {v[i] : i \in DOMAIN v}
Live == {a \in AllocId : astate[a] = "live"}
LiveConts == {c \in ContId : cstate[c] = "live"}

(***************************************************************************)
(* C1  Pool reuse: an allocator instance that has only ever served the    *)
(* cycle allocate(1), deallocate(the block just returned, 1), any number  *)
(* of times, has obtained at most BlockSize blocks from the system and    *)
(* has run expand() at most once.                                         *)
(***************************************************************************)
C1_PoolReuse ==
  \A a \in Live :
    cyc[a].p >= 0 => cnt[a].sys <= BlockSize /\ cnt[a].expands <= 1

\* The second cycle has completed and a third allocate(1) has returned
C1_Witness ==
  /\ cyc[1].k = 2 /\ cyc[1].p > 0
  /\ cnt[1].sys = BlockSize

(***************************************************************************)
(* C2  Batch growth: an in-pool allocate that finds free_blocks empty and  *)
(* returns has run expand() exactly once, obtaining exactly BlockSize      *)
(* blocks from the system; each of the next BlockSize - 1 in-pool          *)
(* allocates, with no deallocate in between, returns a block without       *)
(* expanding and without a system allocation.                              *)
(***************************************************************************)
C2_Step(a, n, k) ==
  (Allocate(a, n, k) /\ n <= BlockSize) =>
     /\ (free_blocks[a] = <<>> /\ last'.ok) =>
           /\ cnt'[a].expands = cnt[a].expands + 1
           /\ cnt'[a].sys = cnt[a].sys + BlockSize
           /\ nextAddr' = nextAddr + BlockSize
           /\ Len(free_blocks'[a]) = BlockSize - 1
           /\ run'[a] = 1
     /\ (run[a] >= 1 /\ run[a] < BlockSize) =>
           /\ last'.ok
           /\ cnt'[a].expands = cnt[a].expands
           /\ nextAddr' = nextAddr
           /\ run'[a] = run[a] + 1

C2_BatchGrowth ==
  [][\A a \in AllocId, n \in Counts, k \in OomChoices : C2_Step(a, n, k)]_vars

\* The second expansion has happened and the BlockSize - 1 allocations after
\* it have been served
C2_Witness == cnt[1].expands = 2 /\ run[1] = BlockSize

(***************************************************************************)
(* C3  Bypass isolation: allocate(n) with n > BlockSize leaves free_blocks *)
(* as it was, runs no expand(), and when it returns, returns one new       *)
(* system block of n * sizeof(T) bytes; deallocate(p, n) with              *)
(* n > BlockSize gives p back to the system and leaves free_blocks as it   *)
(* was.                                                                    *)
(***************************************************************************)
C3_BypassIsolation ==
  [][/\ \A a \in AllocId, n \in Counts, k \in OomChoices :
          (Allocate(a, n, k) /\ n > BlockSize) =>
             /\ free_blocks' = free_blocks
             /\ cnt'[a].expands = cnt[a].expands
             /\ last'.ok =>
                  /\ nextAddr' = nextAddr + 1
                  /\ heap'[nextAddr'] = n * SizeofT
                  /\ held' = held \cup {[p |-> nextAddr', n |-> n, a |-> a]}
     /\ \A h \in held :
          (Deallocate(h) /\ h.n > BlockSize) =>
             /\ free_blocks' = free_blocks
             /\ heap[h.p] # NotLive /\ heap'[h.p] = NotLive
    ]_vars

\* A bypass block has been allocated and released while the pool held blocks
C3_Witness ==
  /\ last.op = "deallocate"
  /\ free_blocks[1] # <<>>
  /\ \E p \in Addr : p <= nextAddr /\ heap[p] = NotLive

Occurrences(v, e) == Cardinality({i \in DOMAIN v : v[i] = e})

(***************************************************************************)
(* C4  After N completed push_backs on a container built by its            *)
(* constructor, size() is N, empty() holds exactly when N is 0, the        *)
(* elements read in order are the values in the order they were appended,  *)
(* and that is what print() writes.                                        *)
(***************************************************************************)
C4_AppendOrder ==
  \A c \in LiveConts :
    /\ size(c) = Len(appended[c])
    /\ empty(c) <=> appended[c] = <<>>
    /\ enumerate(mem, elements_[c]) = {appended[c]}
    /\ last.op = "print" => last.out = appended[c]

\* print() has written more than one batch of elements, not all equal
C4_Witness ==
  /\ last.op = "print"
  /\ Len(last.out) > BlockSize
  /\ last.out[1] # last.out[2]

(***************************************************************************)
(* C5  After a container all of whose N push_backs returned is destroyed,  *)
(* its allocator has seen N allocate, N construct, N destroy and N         *)
(* deallocate calls; the destructor made exactly one destroy and one       *)
(* deallocate call for each block, no block holds an object any more,      *)
(* and each block the allocator obtained is in free_blocks exactly once.   *)
(***************************************************************************)
C5_TeardownCounts ==
  \A c \in ContId :
    (cstate[c] = "dead" /\ ~failedPush[c]) =>
      LET a == alloc_[c]
          N == Len(appended[c])
      IN /\ cnt[a].allocate = N /\ cnt[a].construct = N
         /\ cnt[a].destroy = N /\ cnt[a].deallocate = N
         /\ Len(elements_[c]) = N
         /\ \A p \in Range(elements_[c]) :
              /\ Occurrences(elements_[c], p) = 1
              /\ mem[p] = NoObj
              /\ Occurrences(free_blocks[a], p) = 1
              /\ Cardinality({i \in DOMAIN last.calls :
                                last.calls[i] = Call("destroy", a, p, 0)}) = 1
              /\ Cardinality({i \in DOMAIN last.calls :
                                last.calls[i] = Call("deallocate", a, p, 1)}) = 1
         /\ Len(free_blocks[a]) = cnt[a].sys

\* A container that grew past one batch has been destroyed
C5_Witness ==
  /\ cstate[1] = "dead" /\ ~failedPush[1]
  /\ Len(appended[1]) > BlockSize

(***************************************************************************)
(* C6  No block address is in the free_blocks of two distinct live         *)
(* allocator instances.                                                    *)
(***************************************************************************)
C6_PoolsDisjoint ==
  \A a, b \in Live :
    a # b => Range(free_blocks[a]) \cap Range(free_blocks[b]) = {}

(***************************************************************************)
(* C7  Every address a live container records holds a constructed          *)
(* element, and no address is recorded by two live containers.             *)
(***************************************************************************)
C7_ElementsExclusive ==
  /\ \A c \in LiveConts : \A p \in Range(elements_[c]) : mem[p] # NoObj
  /\ \A c, d \in LiveConts :
       c # d => Range(elements_[c]) \cap Range(elements_[d]) = {}

(***************************************************************************)
(* C8  In every state of a container, after construction, after every     *)
(* push_back that returned and after every push_back that threw, the       *)
(* length of elements_ equals size_.                                       *)
(***************************************************************************)
C8_SizeMatches ==
  \A c \in ContId : Len(elements_[c]) = size_[c]

\* A push_back on a non-empty container threw after the element was built:
\* the element exists and is not recorded
C8_Witness ==
  /\ cstate[1] = "live" /\ failedPush[1] /\ size_[1] >= 1
  /\ \E p \in Addr : mem[p] # NoObj /\ p \notin Range(elements_[1])

\* The system allocator fails during allocate(n) on the vector fb under the
\* environment's choice k
OomHit(fb, n, k) ==
  IF n > BlockSize THEN k = 0 ELSE fb = <<>> /\ k < 2 * BlockSize

(***************************************************************************)
(* C9  When the system allocator fails during allocate, on the bypass path *)
(* or in expand(), the call throws: the caller gets no block, and no       *)
(* further system allocation is made after the one that failed.  When      *)
(* that happens in push_back, push_back throws and elements_, size_ and    *)
(* the objects in memory are as before.                                    *)
(***************************************************************************)
C9_OomPropagates ==
  [][/\ \A a \in AllocId, n \in Counts, k \in OomChoices :
          (Allocate(a, n, k) /\ OomHit(free_blocks[a], n, k)) =>
             /\ ~last'.ok
             /\ held' = held
             /\ nextAddr' = nextAddr + (IF n > BlockSize THEN 0 ELSE (k + 1) \div 2)
     /\ \A c \in ContId, v \in Values, k \in OomChoices, f \in PushOutcomes :
          (push_back(c, v, k, f) /\ OomHit(free_blocks[alloc_[c]], 1, k)) =>
             /\ ~last'.ok
             /\ elements_' = elements_ /\ size_' = size_ /\ mem' = mem
             /\ nextAddr' = nextAddr + (k + 1) \div 2
    ]_vars

\* push_back on a non-empty container has thrown out of expand() with part
\* of the batch obtained, while the direct caller holds a bypass block
C9_Witness ==
  /\ last.op = "push_back" /\ ~last.ok /\ Len(last.calls) = 1
  /\ size_[1] >= 1
  /\ free_blocks[alloc_[1]] # <<>>
  /\ \E h \in held : h.n > BlockSize

\* The calls ~MyContainer() is to make on allocator a for the elements elems
ExpectedTeardown(a, elems) ==
  [j \in 1..(2 * Len(elems)) |->
     IF j % 2 = 1 THEN Call("destroy", a, elems[(j + 1) \div 2], 0)
     ELSE Call("deallocate", a, elems[j \div 2], 1)]

(***************************************************************************)
(* C10 Teardown ordering: a container's alloc_ is the same instance from   *)
(* construction on; the address push_back records is the one allocate(1)   *)
(* on alloc_ returned; the destructor calls, for every recorded address in *)
(* turn, destroy on alloc_ and then deallocate with count 1 on alloc_,     *)
(* and nothing else.                                                       *)
(***************************************************************************)
C10_TeardownOrder ==
  [][/\ \A c \in ContId : alloc_[c] # 0 => alloc_'[c] = alloc_[c]
     /\ (last'.op = "push_back" /\ last'.ok) =>
          \E c \in LiveConts :
             /\ elements_'[c] = Append(elements_[c], Back(elements_'[c]))
             /\ last'.calls[1] = Call("allocate", alloc_[c], Back(elements_'[c]), 1)
     /\ last'.op = "destroy" =>
          \E c \in LiveConts :
             /\ cstate'[c] = "dead"
             /\ last'.calls = ExpectedTeardown(alloc_[c], elements_[c])
    ]_vars

\* A container with several elements has been destroyed
C10_Witness ==
  /\ last.op = "destroy" /\ cstate[1] = "dead"
  /\ Len(elements_[1]) > BlockSize

(***************************************************************************)
(* C11 Compatibility check: for any two live allocator instances, whatever *)
(* their free_blocks hold, operator== gives true and operator!= gives      *)
(* false; every comparison a caller makes returns that answer, however     *)
(* often it is made and whatever was allocated or released in between.     *)
(***************************************************************************)
C11_AlwaysCompatible ==
  /\ \A a, b \in Live :
       /\ operator_eq(free_blocks[a], free_blocks[b]) = TRUE
       /\ operator_ne(free_blocks[a], free_blocks[b]) = FALSE
  /\ last.op = "operator==" => last.out = <<TRUE>>
  /\ last.op = "operator!=" => last.out = <<FALSE>>

\* Two distinct instances whose pools differ have been compared
C11_Witness ==
  /\ last.op = "operator=="
  /\ \E i \in DOMAIN last.calls :
       LET c == last.calls[i] IN
         /\ c.a # c.b
         /\ free_blocks[c.a] # <<>>
         /\ free_blocks[c.a] # free_blocks[c.b]

(***************************************************************************)
(* C12 free_blocks size accounting: an instance built by the default or    *)
(* the converting constructor starts with an empty free_blocks; an in-pool *)
(* allocate that returns, if it found free_blocks empty, obtained exactly  *)
(* BlockSize blocks and leaves BlockSize - 1 of them in free_blocks, and   *)
(* otherwise obtained none and leaves free_blocks one entry shorter; an    *)
(* in-pool deallocate leaves free_blocks one entry longer.                 *)
(***************************************************************************)
C12_SizeAccounting ==
  [][/\ \A a \in AllocId :
          (astate[a] = "none" /\ astate'[a] = "live") => free_blocks'[a] = <<>>
     /\ \A a \in AllocId, n \in Counts, k \in OomChoices :
          (Allocate(a, n, k) /\ n <= BlockSize /\ last'.ok) =>
             IF free_blocks[a] = <<>>
             THEN /\ nextAddr' = nextAddr + BlockSize
                  /\ Len(free_blocks'[a]) = BlockSize - 1
             ELSE /\ nextAddr' = nextAddr
                  /\ Len(free_blocks'[a]) = Len(free_blocks[a]) - 1
     /\ \A h \in held :
          (Deallocate(h) /\ h.n <= BlockSize) =>
             Len(free_blocks'[h.a]) = Len(free_blocks[h.a]) + 1
    ]_vars

\* An instance has expanded once, served BlockSize allocations and taken
\* one block back
C12_Witness ==
  /\ last.op = "deallocate"
  /\ cnt[1].expands = 1
  /\ Len(free_blocks[1]) = 1
  /\ Cardinality({h \in held : h.a = 1 /\ h.n <= BlockSize}) = BlockSize - 1

(***************************************************************************)
(* C13 Stack discipline: an in-pool allocate that returns hands out the    *)
(* last entry of free_blocks (after expand(), the last block created) and  *)
(* leaves the entries before it in place; an in-pool deallocate(p, n)      *)
(* makes p the last entry.  So allocate(1) right after deallocate(p, 1)    *)
(* returns p, and blocks leave in the reverse of the order they entered.   *)
(***************************************************************************)
C13_Lifo ==
  [][/\ \A a \in AllocId, n \in Counts, k \in OomChoices :
          (Allocate(a, n, k) /\ n <= BlockSize /\ last'.ok) =>
             LET pool == IF free_blocks[a] = <<>>
                         THEN [j \in 1..BlockSize |-> nextAddr + j]
                         ELSE free_blocks[a]
             IN /\ held' = held \cup {[p |-> pool[Len(pool)], n |-> n, a |-> a]}
                /\ free_blocks'[a] = SubSeq(pool, 1, Len(pool) - 1)
     /\ \A h \in held :
          (Deallocate(h) /\ h.n <= BlockSize) =>
             /\ free_blocks'[h.a] = Append(free_blocks[h.a], h.p)
             /\ \A n \in Counts, k \in OomChoices :
                  n <= BlockSize =>
                    allocate(free_blocks'[h.a], nextAddr', n, k).result = h.p
    ]_vars

\* allocate(1) has returned right after a deallocate, with a block created
\* before the returned one still in the pool
C13_Witness ==
  /\ last.op = "allocate" /\ last.ok
  /\ cyc[1].k = 1 /\ cyc[1].p = BlockSize
  /\ free_blocks[1] = [j \in 1..(BlockSize - 1) |-> j]

(***************************************************************************)
(* C15 Every block a caller holds from allocate(n) has room for at least   *)
(* n elements, on the bypass path and on the pool path.                    *)
(***************************************************************************)
C15_RoomForCount ==
  \A h \in held : heap[h.p] >= h.n * SizeofT

(***************************************************************************)
(* C16 Every block a caller holds from allocate(n) with n > BlockSize has  *)
(* exactly n * sizeof(T) bytes, the product taken in the integers.         *)
(***************************************************************************)
C16_BytesExact ==
  \A h \in held : h.n > BlockSize => heap[h.p] = h.n * SizeofT

\* The blocks of instance a's pool that are handed out: those a direct caller
\* holds from an in-pool allocate, and the elements of the live container
\* whose alloc_ is a
HandedOut(a) ==
  {h.p : h \in {g \in held : g.a = a /\ g.n <= BlockSize}}
    \cup UNION {Range(elements_[c]) : c \in {d \in LiveConts : alloc_[d] = a}}

(***************************************************************************)
(* C14 Free-list invariant: with every deallocate matched (the block came  *)
(* from the same instance's allocate with the same count, is released      *)
(* once, after its element was destroyed), every address in an instance's  *)
(* free_blocks is there exactly once, is not handed out, holds no object,  *)
(* and is a live system block of sizeof(T) bytes.                          *)
(***************************************************************************)
C14_FreeListSound ==
  \A a \in AllocId : \A p \in Range(free_blocks[a]) :
    /\ Occurrences(free_blocks[a], p) = 1
    /\ p \notin HandedOut(a)
    /\ mem[p] = NoObj
    /\ heap[p] = SizeofT

\* The container has been destroyed, its elements' blocks are back in its
\* pool, and the direct caller has returned a block to the other pool
C14_Witness ==
  /\ cstate[1] = "dead" /\ Len(elements_[1]) >= 1
  /\ Range(elements_[1]) \subseteq Range(free_blocks[alloc_[1]])
  /\ last.op = "deallocate" /\ Len(free_blocks[1]) = BlockSize

(***************************************************************************)
(* C17 Growth does not move elements: a push_back that returns leaves the  *)
(* addresses recorded before it, their order and the values stored at      *)
(* them as they were, records exactly one new address after them, which    *)
(* was not recorded before, and increments size_ by one.                   *)
(***************************************************************************)
C17_PushBackFrame ==
  [][\A c \in ContId, v \in Values, k \in OomChoices, f \in PushOutcomes :
        (push_back(c, v, k, f) /\ last'.ok) =>
           LET old == elements_[c]
               new == elements_'[c]
           IN /\ Len(new) = Len(old) + 1
              /\ SubSeq(new, 1, Len(old)) = old
              /\ new[Len(new)] \notin Range(old)
              /\ \A i \in DOMAIN old : mem'[old[i]] = mem[old[i]]
              /\ mem'[new[Len(new)]] = v
              /\ size_'[c] = size_[c] + 1
              /\ \A d \in ContId \ {c} :
                   elements_'[d] = elements_[d] /\ size_'[d] = size_[d]
    ]_vars

\* A push_back that had to expand the pool has returned on a container
\* that held a full batch of elements with distinct values
C17_Witness ==
  /\ last.op = "push_back" /\ last.ok
  /\ size_[1] = BlockSize + 1
  /\ cnt[alloc_[1]].expands = 2
  /\ mem[elements_[1][1]] # mem[elements_[1][2]]

(***************************************************************************)
(* C18 Block conservation: while no call has failed, for every instance    *)
(* BlockSize times the expand() runs completed equals the entries of       *)
(* free_blocks plus the pool blocks handed out; and once a container that  *)
(* received N >= 1 elements is destroyed, its allocator's free_blocks      *)
(* holds BlockSize * ceil(N / BlockSize) blocks.                           *)
(***************************************************************************)
C18_BlockConservation ==
  fails = 0 =>
    /\ \A a \in AllocId :
         BlockSize * cnt[a].expands
           = Len(free_blocks[a]) + Cardinality(HandedOut(a))
    /\ \A c \in ContId :
         (cstate[c] = "dead" /\ Len(appended[c]) >= 1) =>
            Len(free_blocks[alloc_[c]])
              = BlockSize * ((Len(appended[c]) + BlockSize - 1) \div BlockSize)

\* A container that grew past one batch has been destroyed with no failure,
\* leaving two batches in its allocator's pool
C18_Witness ==
  /\ fails = 0
  /\ cstate[1] = "dead"
  /\ Len(appended[1]) = BlockSize + 1
  /\ Len(free_blocks[alloc_[1]]) = 2 * BlockSize

\* The system blocks of sizeof(T) bytes: those expand() obtained (line 77),
\* every bypass block the callers here ask for being larger
PoolBlocks == {p \in Addr : heap[p] = SizeofT}

(***************************************************************************)
(* C19 Pool blocks are never returned to the system: no operation, the     *)
(* destruction of an allocator or of a container included, makes a block   *)
(* obtained by expand() stop being a live system block, so the number of   *)
(* such blocks never decreases.                                            *)
(***************************************************************************)
C19_PoolBlocksKept ==
  [][/\ PoolBlocks \subseteq PoolBlocks'
     /\ \A a \in AllocId : cnt'[a].sys >= cnt[a].sys
    ]_vars

\* Both pools have expanded, the direct caller's allocator and the container
\* have been destroyed, and every block obtained is still a live system block
C19_Witness ==
  /\ astate[1] = "dead" /\ cstate[1] = "dead"
  /\ cnt[1].expands = 1 /\ cnt[alloc_[1]].expands = 1
  /\ Cardinality(PoolBlocks) = 2 * BlockSize
====
